---- MODULE Spec2Model ----
(***************************************************************************)
(* Model of the one-way bit accumulator OnewayBitset<SizeT, AllocT>        *)
(* (src/bitsets/OnewayBitset.hpp).  A block is an unsigned integer of      *)
(* blocksize bits, kept as a number in 0 .. alloct_all; the block array of *)
(* an instance is a function over the block indices 0 .. _nblocks-1.       *)
(* Further state machines model the instances with their arrays on the     *)
(* heap, OnewayBitfield (src/change_tracking_nextlvl/OnewayBitfield.hpp),  *)
(* the samplers of src/change_tracking_nextlvl/tracking_nextlvl.hpp and    *)
(* PushBackBuffer (src/recent_value_storage/quick-bench.cpp).              *)
(***************************************************************************)
EXTENDS Integers, FiniteSets, Sequences, TLC

\* ---- bounds of the model ------------------------------------------------
\* bit width of AllocT (a template parameter of the class)
blocksize == 2
\* largest bit count handed to the constructor
MaxNBits == 3
\* largest number of sampling steps (nsteps) of the change tracking
MaxSteps == 3
\* largest capacity of a PushBackBuffer and largest number of push_back calls
MaxCap == 3
MaxPush == 5

\* ---- compile-time statics ------------------------------------------------
alloct_one == 1
alloct_zero == 0
\* ~(alloct_zero) in AllocT: all blocksize bits 1
alloct_all == (2 ^ blocksize) - 1

\* the instances of the program
Objs == {"a", "b"}
\* bit counts passed to the constructor (a signed SizeT admits a negative one)
NBitsInputs == (0 - 1) .. MaxNBits

VARIABLES bs, lastOp, crashed, inst, heap, variant, fan, track, buf
vars == <<bs, lastOp, crashed, inst, heap, variant, fan, track, buf>>

\* the variables of the further state machines (an OnewayBitfield next to an
\* OnewayBitset, the fan-in, the change tracking, the PushBackBuffer) and the
\* value they keep while another state machine runs
ext == <<variant, fan, track, buf>>
Idle == <<>>

\* ---- block arithmetic in AllocT (modulo 2^blocksize) ---------------------
\* x << k, truncated to AllocT
Shl(x, k) == (x * (2 ^ k)) % (2 ^ blocksize)
\* x >> k
Shr(x, k) == x \div (2 ^ k)
\* ~x, truncated to AllocT
Not(x) == alloct_all - x

RECURSIVE OrBits(_, _, _)
OrBits(x, y, k) ==
    IF k = 0 THEN 0
    ELSE (IF (x % 2 = 1) \/ (y % 2 = 1) THEN 1 ELSE 0)
         + 2 * OrBits(x \div 2, y \div 2, k - 1)
\* x | y
Or(x, y) == OrBits(x, y, blocksize)

RECURSIVE AndBits(_, _, _)
AndBits(x, y, k) ==
    IF k = 0 THEN 0
    ELSE (IF (x % 2 = 1) /\ (y % 2 = 1) THEN 1 ELSE 0)
         + 2 * AndBits(x \div 2, y \div 2, k - 1)
\* x & y
And(x, y) == AndBits(x, y, blocksize)

\* std::fill(blocks + from, blocks + to, val)
fill(blocks, from, to, val) ==
    [k \in DOMAIN blocks |-> IF from <= k /\ k < to THEN val ELSE blocks[k]]

\* ---- construction --------------------------------------------------------
\* a block count that rounds down and adds one
nblocksOf_floor(nbits) == IF nbits > 0 THEN (nbits \div blocksize) + 1 ELSE 0

\* _nblocks(_nbits > 0 ? (_nbits-1)/blocksize + 1 : 0)
nblocksOf(nbits) == IF nbits > 0 THEN ((nbits - 1) \div blocksize) + 1 ELSE 0

\* _padblk(~( alloct_all << static_cast<AllocT>(_nbits%blocksize) ))
padblkOf(nbits) == Not(Shl(alloct_all, nbits % blocksize))

\* reset() with the fill bound of setAll(): the last block is not cleared
reset_short(this) ==
    [this EXCEPT !.blocks = fill(this.blocks, 0, this.nblocks - 1, alloct_zero),
                 !.flag_zero = TRUE]

\* void reset()
reset(this) ==
    [this EXCEPT !.blocks = fill(this.blocks, 0, this.nblocks, alloct_zero),
                 !.flag_zero = TRUE]

\* a constructor that sets the flag but leaves the new block array as it is
ctor_noreset(n_bits) ==
    LET nbits == IF n_bits > 0 THEN n_bits ELSE 0
        nblocks == nblocksOf(nbits)
    IN  [nbits |-> nbits, nblocks |-> nblocks, padblk |-> padblkOf(nbits),
         blocks |-> [k \in 0 .. (nblocks - 1) |-> alloct_all],
         flag_zero |-> TRUE]

\* explicit OnewayBitset(const SizeT n_bits = 0); new AllocT[_nblocks] holds
\* indeterminate values, every one of which reset() overwrites
ctor(n_bits) ==
    LET nbits == IF n_bits > 0 THEN n_bits ELSE 0
        nblocks == nblocksOf(nbits)
    IN  reset([nbits |-> nbits, nblocks |-> nblocks, padblk |-> padblkOf(nbits),
               blocks |-> [k \in 0 .. (nblocks - 1) |-> alloct_all],
               flag_zero |-> TRUE])

\* the empty state a move leaves its source in
movedFrom ==
    [nbits |-> 0, nblocks |-> 0, padblk |-> 0,
     blocks |-> [k \in 0 .. (0 - 1) |-> alloct_zero], flag_zero |-> TRUE]

\* ---- methods involving one bitset --------------------------------------
\* set(index) that forgets to clear the flag
set_keepflag(this, index) ==
    LET blockIndex == index \div blocksize
        bitIndex == index % blocksize
    IN  [this EXCEPT !.blocks[blockIndex] = Or(@, Shl(alloct_one, bitIndex))]

\* set(index) that shifts by index instead of by bitIndex
set_shiftindex(this, index) ==
    LET blockIndex == index \div blocksize
    IN  [this EXCEPT !.blocks[blockIndex] = Or(@, Shl(alloct_one, index)),
                     !.flag_zero = FALSE]

\* void set(SizeT index), called with 0 <= index < _nbits
set(this, index) ==
    LET blockIndex == index \div blocksize
        bitIndex == index % blocksize
    IN  [this EXCEPT !.blocks[blockIndex] = Or(@, Shl(alloct_one, bitIndex)),
                     !.flag_zero = FALSE]

\* void set(SizeT blockIndex, SizeT bitIndex), called with
\* 0 <= blockIndex < _nblocks and 0 <= bitIndex < blocksize
set_tuple(this, blockIndex, bitIndex) ==
    [this EXCEPT !.blocks[blockIndex] = Or(@, Shl(alloct_one, bitIndex)),
                 !.flag_zero = FALSE]

\* void setAll(), for _nblocks >= 1 (with _nblocks = 0 it writes outside the
\* block array, see SetAll)
setAll(this) ==
    [this EXCEPT !.blocks = [fill(this.blocks, 0, this.nblocks - 1, alloct_all)
                                EXCEPT ![this.nblocks - 1] = this.padblk],
                 !.flag_zero = FALSE]

\* bool get(SizeT index) const, called with 0 <= index < _nbits
get(this, index) ==
    LET blockIndex == index \div blocksize
        bitIndex == index % blocksize
    IN  And(Shr(this.blocks[blockIndex], bitIndex), alloct_one) # 0

\* bool any() const
any(this) == ~this.flag_zero

\* bool none() const
none(this) == this.flag_zero

\* bool all() const: the set of values a call can return.  With _nblocks = 0
\* and the flag cleared the loop and the final comparison read outside the
\* block array, so the result is not determined.
all(this) ==
    IF this.flag_zero THEN {FALSE}
    ELSE IF this.nblocks = 0 THEN BOOLEAN
    ELSE IF \E blkidx \in 0 .. (this.nblocks - 2) : this.blocks[blkidx] # alloct_all
         THEN {FALSE}
         ELSE {this.blocks[this.nblocks - 1] = this.padblk}

\* while( blkval ) { blkval = blkval & (blkval-alloct_one); ++count; }
RECURSIVE countBlock(_)
countBlock(blkval) ==
    IF blkval = 0 THEN 0 ELSE 1 + countBlock(And(blkval, blkval - alloct_one))

\* for (SizeT blkidx=0; blkidx<_nblocks; ++blkidx) in count()
RECURSIVE countFrom(_, _)
countFrom(this, blkidx) ==
    IF blkidx >= this.nblocks THEN 0
    ELSE countBlock(this.blocks[blkidx]) + countFrom(this, blkidx + 1)

\* SizeT count() const
count(this) == IF this.flag_zero THEN 0 ELSE countFrom(this, 0)

\* while ( blkval ) { out[bitidx] = blkval & alloct_one; blkval >>= alloct_one;
\* ++bitidx; } of getAll: out is the buffer as a function over the entries
\* written so far
RECURSIVE getAllBlock(_, _, _)
getAllBlock(out, blkval, bitidx) ==
    IF blkval = 0 THEN out
    ELSE getAllBlock((bitidx :> (And(blkval, alloct_one) # 0)) @@ out,
                     Shr(blkval, alloct_one), bitidx + 1)

\* for (SizeT blkidx=0; blkidx<_nblocks; ++blkidx, blkoff+=blocksize) of getAll
RECURSIVE getAllFrom(_, _, _, _)
getAllFrom(this, out, blkidx, blkoff) ==
    IF blkidx >= this.nblocks THEN out
    ELSE getAllFrom(this, getAllBlock(out, this.blocks[blkidx], blkoff),
                    blkidx + 1, blkoff + blocksize)

\* void getAll(bool out[]) const: the entries of out the call writes, with
\* the values it leaves in them
getAll(this) ==
    LET filled == [i \in 0 .. (this.nbits - 1) |-> FALSE]
    IN  IF this.flag_zero THEN filled ELSE getAllFrom(this, filled, 0, 0)

\* ---- methods involving this and another bitset ---------------------------
\* for (SizeT i=0; i<_nblocks; ++i) { _blocks[i] |= other._blocks[i]; }
\* aliased: other is this very object, so other._blocks[i] is read from the
\* array the loop is writing
RECURSIVE mergeLoop(_, _, _, _, _)
mergeLoop(blocks, otherBlocks, i, nblocks, aliased) ==
    IF i >= nblocks THEN blocks
    ELSE LET src == IF aliased THEN blocks ELSE otherBlocks
         IN  mergeLoop([blocks EXCEPT ![i] = Or(@, src[i])],
                       otherBlocks, i + 1, nblocks, aliased)

\* merge that ORs the flags instead of ANDing them
merge_flagor(this, other, aliased) ==
    IF this.nbits # other.nbits THEN this
    ELSE [this EXCEPT !.blocks = mergeLoop(this.blocks, other.blocks, 0,
                                           this.nblocks, aliased),
                      !.flag_zero = (this.flag_zero \/ other.flag_zero)]

\* merge whose size check compares the block counts instead of the bit counts
merge_blockguard(this, other, aliased) ==
    IF this.nblocks # other.nblocks THEN this
    ELSE [this EXCEPT !.blocks = mergeLoop(this.blocks, other.blocks, 0,
                                           this.nblocks, aliased),
                      !.flag_zero = (this.flag_zero /\ other.flag_zero)]

\* merge that stores the blocks of other instead of ORing them in
merge_overwrite(this, other, aliased) ==
    IF this.nbits # other.nbits THEN this
    ELSE [this EXCEPT !.blocks = other.blocks,
                      !.flag_zero = (this.flag_zero /\ other.flag_zero)]

\* void merge(const OnewayBitset &other)
merge(this, other, aliased) ==
    IF this.nbits # other.nbits THEN this
    ELSE [this EXCEPT !.blocks = mergeLoop(this.blocks, other.blocks, 0,
                                           this.nblocks, aliased),
                      !.flag_zero = (this.flag_zero /\ other.flag_zero)]

\* the blocks merge touches: none when the sizes differ, else block i of both
mergeAccess(this, other, o, p) ==
    IF this.nbits # other.nbits THEN {}
    ELSE {[obj |-> q, idx |-> i] : q \in {o, p}, i \in 0 .. (this.nblocks - 1)}

\* a compound assignment that stores other in this
plusAssign_overwrite(this, other, aliased) ==
    IF this.nbits # other.nbits THEN this
    ELSE [this EXCEPT !.blocks = other.blocks, !.flag_zero = other.flag_zero]

\* OnewayBitset& operator+=(const OnewayBitset &other): this->merge(other)
plusAssign(this, other, aliased) == merge(this, other, aliased)

\* bool equals(const OnewayBitset &other) const
equals(this, other) ==
    IF this.nbits # other.nbits THEN FALSE
    ELSE \A k \in 0 .. (this.nblocks - 1) : this.blocks[k] = other.blocks[k]

\* a copy assignment that keeps the pad mask of the target
copyAssign_keeppad(this, other) ==
    LET realloc == this.nbits # other.nbits /\ this.nblocks # other.nblocks
        nblocks == IF realloc THEN other.nblocks ELSE this.nblocks
    IN  [nbits |-> other.nbits, nblocks |-> nblocks, padblk |-> this.padblk,
         blocks |-> [k \in 0 .. (nblocks - 1) |-> other.blocks[k]],
         flag_zero |-> other.flag_zero]

\* OnewayBitset& operator=(const OnewayBitset &other), this != &other
copyAssign(this, other) ==
    LET realloc == this.nbits # other.nbits /\ this.nblocks # other.nblocks
        nblocks == IF realloc THEN other.nblocks ELSE this.nblocks
        nbits == other.nbits
        padblk == IF this.nbits # other.nbits THEN other.padblk ELSE this.padblk
    IN  [nbits |-> nbits, nblocks |-> nblocks, padblk |-> padblk,
         \* std::copy(other._blocks, other._blocks+_nblocks, _blocks)
         blocks |-> [k \in 0 .. (nblocks - 1) |-> other.blocks[k]],
         flag_zero |-> other.flag_zero]

\* ---- OnewayBitfield (change_tracking_nextlvl) -----------------------------
\* explicit OnewayBitfield(const SizeT nbits), called with nbits >= 1 (the
\* class has no check of its argument); nrest is read by the initialiser of
\* padblk only
field_ctor(nbits) ==
    LET nblocks == ((nbits - 1) \div blocksize) + 1
        nrest == nbits % blocksize
        new == [nbits |-> nbits, nblocks |-> nblocks,
                padblk |-> Not(Shl(alloct_all, nrest)),
                blocks |-> [k \in 0 .. (nblocks - 1) |-> alloct_all],
                flag_zero |-> TRUE]
    IN  [new EXCEPT !.blocks = fill(new.blocks, 0, new.nblocks, alloct_zero),
                    !.flag_zero = TRUE]

\* void OnewayBitfield::reset()
field_reset(this) ==
    [this EXCEPT !.blocks = fill(this.blocks, 0, this.nblocks, alloct_zero),
                 !.flag_zero = TRUE]

\* void OnewayBitfield::set(SizeT index), called with 0 <= index < nbits
field_set(this, index) ==
    LET blockIndex == index \div blocksize
        bitIndex == index % blocksize
    IN  [this EXCEPT !.blocks[blockIndex] = Or(@, Shl(alloct_one, bitIndex)),
                     !.flag_zero = FALSE]

\* setAll() that fills the last block like the others
field_setAll_nopad(this) ==
    [this EXCEPT !.blocks = fill(this.blocks, 0, this.nblocks, alloct_all),
                 !.flag_zero = FALSE]

\* void OnewayBitfield::setAll() (nblocks >= 1 for every constructed field)
field_setAll(this) ==
    [this EXCEPT !.blocks = [fill(this.blocks, 0, this.nblocks - 1, alloct_all)
                                EXCEPT ![this.nblocks - 1] = this.padblk],
                 !.flag_zero = FALSE]

\* bool OnewayBitfield::get(SizeT index) const, called with 0 <= index < nbits
field_get(this, index) ==
    IF this.flag_zero THEN FALSE
    ELSE LET blockIndex == index \div blocksize
             bitIndex == index % blocksize
         IN  And(Shr(this.blocks[blockIndex], bitIndex), alloct_one) # 0

\* bool OnewayBitfield::any() const
field_any(this) == ~this.flag_zero

\* SizeT OnewayBitfield::count() const
field_count(this) == IF this.flag_zero THEN 0 ELSE countFrom(this, 0)

\* bool OnewayBitfield::none() const
field_none(this) == this.flag_zero

\* bool OnewayBitfield::all() const (nblocks >= 1)
field_all(this) ==
    IF this.flag_zero THEN FALSE
    ELSE IF \E blkidx \in 0 .. (this.nblocks - 2) : this.blocks[blkidx] # alloct_all
         THEN FALSE
         ELSE this.blocks[this.nblocks - 1] = this.padblk

\* void OnewayBitfield::getAll(bool out[]) const: the entries of out the call
\* writes, with the values it leaves in them
field_getAll(this) ==
    LET filled == [i \in 0 .. (this.nbits - 1) |-> FALSE]
    IN  IF this.flag_zero THEN filled ELSE getAllFrom(this, filled, 0, 0)

\* void OnewayBitfield::merge(const OnewayBitfield &other), called with
\* other.nblocks >= nblocks (the method has no size check)
field_merge(this, other, aliased) ==
    [this EXCEPT !.blocks = mergeLoop(this.blocks, other.blocks, 0,
                                      this.nblocks, aliased),
                 !.flag_zero = (this.flag_zero /\ other.flag_zero)]

\* ---- the state machine ---------------------------------------------------
\* bs[o]: the fields of instance o.  lastOp: the call that produced the
\* current state, with the block indices it read or wrote (acc).  crashed:
\* the process was terminated by an access outside a block array.
NoIdx == 0 - 1

Op(op, o, p, idx, bit, acc) ==
    [op |-> op, obj |-> o, other |-> p, idx |-> idx, bit |-> bit, acc |-> acc]

\* a call of o with argument p that returns result
OpRet(op, o, p, result) ==
    [op |-> op, obj |-> o, other |-> p, idx |-> NoIdx, bit |-> NoIdx, acc |-> {},
     result |-> result]

\* the block indices 0 .. _nblocks-1 of instance o
OwnBlocks(o, this) == {[obj |-> o, idx |-> k] : k \in 0 .. (this.nblocks - 1)}

\* ---- instances with their block arrays on the heap ------------------------
\* inst[o]: the fields of instance o, _blocks being an address (ptr, 0 for
\* nullptr); live: o is between its constructor and its destructor; kind: the
\* class of the instance, "bitset" (OnewayBitset) or "bitfield" (OnewayBitfield).
\* heap[a]: the array new AllocT[] returned at address a, and whether it is
\* allocated ("live"), was released by delete[] ("freed") or was never used.
\* The specifications of the value model leave both as they start.
Addrs == 1 .. (Cardinality(Objs) + 2)
nullptr == 0

NoInstance ==
    [live |-> FALSE, kind |-> "bitset", nbits |-> 0, nblocks |-> 0, padblk |-> 0,
     ptr |-> nullptr, flag_zero |-> TRUE]
NoArray == [st |-> "unused", data |-> [k \in 0 .. (0 - 1) |-> alloct_zero]]

Init ==
    /\ bs \in [Objs -> {ctor(n) : n \in NBitsInputs}]
    /\ lastOp = Op("init", "a", "a", NoIdx, NoIdx, {})
    /\ crashed = FALSE
    /\ inst = [o \in Objs |-> NoInstance]
    /\ heap = [a \in Addrs |-> NoArray]
    /\ variant = Idle /\ fan = Idle /\ track = Idle /\ buf = Idle

\* OnewayBitset o(n): the instance in slot o is destroyed and a new one built
Construct(o, n) ==
    /\ ~crashed
    /\ bs' = [bs EXCEPT ![o] = ctor(n)]
    /\ lastOp' = Op("construct", o, o, n, NoIdx, OwnBlocks(o, ctor(n)))
    /\ UNCHANGED <<crashed, inst, heap, ext>>

\* o.reset()
Reset(o) ==
    /\ ~crashed
    /\ bs' = [bs EXCEPT ![o] = reset(bs[o])]
    /\ lastOp' = Op("reset", o, o, NoIdx, NoIdx, OwnBlocks(o, bs[o]))
    /\ UNCHANGED <<crashed, inst, heap, ext>>

\* o.set(index)
Set(o, index) ==
    /\ ~crashed
    /\ 0 <= index /\ index < bs[o].nbits
    /\ bs' = [bs EXCEPT ![o] = set(bs[o], index)]
    /\ lastOp' = Op("set", o, o, index, NoIdx,
                    {[obj |-> o, idx |-> index \div blocksize]})
    /\ UNCHANGED <<crashed, inst, heap, ext>>

\* o.set(blockIndex, bitIndex)
SetTuple(o, blockIndex, bitIndex) ==
    /\ ~crashed
    /\ 0 <= blockIndex /\ blockIndex < bs[o].nblocks
    /\ 0 <= bitIndex /\ bitIndex < blocksize
    /\ bs' = [bs EXCEPT ![o] = set_tuple(bs[o], blockIndex, bitIndex)]
    /\ lastOp' = Op("set_tuple", o, o, blockIndex, bitIndex,
                    {[obj |-> o, idx |-> blockIndex]})
    /\ UNCHANGED <<crashed, inst, heap, ext>>

\* o.setAll() on an instance that has blocks
SetAll(o) ==
    /\ ~crashed
    /\ bs[o].nblocks > 0
    /\ bs' = [bs EXCEPT ![o] = setAll(bs[o])]
    /\ lastOp' = Op("setAll", o, o, NoIdx, NoIdx, OwnBlocks(o, bs[o]))
    /\ UNCHANGED <<crashed, inst, heap, ext>>

\* o.setAll() with _nblocks = 0: std::fill up to _blocks+_nblocks-1 and the
\* store to _blocks[_nblocks-1] lie outside the (empty or null) block array.
\* The call either ends the process or returns with the flag cleared, the
\* stray store having hit neither instance.
SetAllNoBlocks(o) ==
    /\ ~crashed
    /\ bs[o].nblocks = 0
    /\ \/ /\ crashed' = TRUE
          /\ lastOp' = Op("crash", o, o, NoIdx, NoIdx,
                          {[obj |-> o, idx |-> bs[o].nblocks - 1]})
          /\ UNCHANGED <<bs, inst, heap, ext>>
       \/ /\ bs' = [bs EXCEPT ![o].flag_zero = FALSE]
          /\ lastOp' = Op("setAll", o, o, NoIdx, NoIdx,
                          {[obj |-> o, idx |-> bs[o].nblocks - 1]})
          /\ UNCHANGED <<crashed, inst, heap, ext>>

\* o.merge(p); p may be o itself
Merge(o, p) ==
    /\ ~crashed
    /\ bs' = [bs EXCEPT ![o] = merge(bs[o], bs[p], o = p)]
    /\ lastOp' = Op("merge", o, p, NoIdx, NoIdx, mergeAccess(bs[o], bs[p], o, p))
    /\ UNCHANGED <<crashed, inst, heap, ext>>

\* o = p (copy assignment), with its self-assignment check
CopyAssign(o, p) ==
    /\ ~crashed
    /\ bs' = IF o # p THEN [bs EXCEPT ![o] = copyAssign(bs[o], bs[p])] ELSE bs
    /\ lastOp' = Op("copy", o, p, NoIdx, NoIdx,
                    IF o # p THEN OwnBlocks(o, bs[p]) \cup OwnBlocks(p, bs[p])
                    ELSE {})
    /\ UNCHANGED <<crashed, inst, heap, ext>>

\* o = std::move(p) (move assignment), with its self-move check
MoveAssign(o, p) ==
    /\ ~crashed
    /\ bs' = IF o # p THEN [bs EXCEPT ![o] = bs[p], ![p] = movedFrom] ELSE bs
    /\ lastOp' = Op("move", o, p, NoIdx, NoIdx, {})
    /\ UNCHANGED <<crashed, inst, heap, ext>>

\* the index-based operations, every call staying inside its block array
NextDefined ==
    \/ \E o \in Objs, n \in NBitsInputs : Construct(o, n)
    \/ \E o \in Objs : Reset(o)
    \/ \E o \in Objs, index \in 0 .. (MaxNBits - 1) : Set(o, index)
    \/ \E o \in Objs : SetAll(o)
    \/ \E o \in Objs, p \in Objs : Merge(o, p)
    \/ \E o \in Objs, p \in Objs : CopyAssign(o, p)
    \/ \E o \in Objs, p \in Objs : MoveAssign(o, p)

\* the operations C1 and the other index-based claims list
NextIdx ==
    \/ NextDefined
    \/ \E o \in Objs : SetAllNoBlocks(o)

Next ==
    \/ NextIdx
    \/ \E o \in Objs, blockIndex \in 0 .. (MaxNBits \div blocksize),
          bitIndex \in 0 .. (blocksize - 1) : SetTuple(o, blockIndex, bitIndex)

\* every operation of the class
Spec == Init /\ [][Next]_vars

\* without the tuple-index set
SpecIdx == Init /\ [][NextIdx]_vars

\* without the tuple-index set and without setAll() on a set of no blocks
SpecDefined == Init /\ [][NextDefined]_vars

\* ---- the state machine of the instances on the heap -----------------------
\* the fields of an instance record i, its block array read through _blocks
\* in heap h (a read outside the array at _blocks yields alloct_zero here)
ViewOf(i, h) ==
    LET arr == IF i.ptr = nullptr THEN NoArray.data ELSE h[i.ptr].data
    IN  [nbits |-> i.nbits, nblocks |-> i.nblocks, padblk |-> i.padblk,
         blocks |-> [k \in 0 .. (i.nblocks - 1) |->
                        IF k \in DOMAIN arr THEN arr[k] ELSE alloct_zero],
         flag_zero |-> i.flag_zero]
View(o) == ViewOf(inst[o], heap)

\* instance record of class kind with the fields of the value record v and
\* _blocks = ptr
Inst(kind, v, ptr) ==
    [live |-> TRUE, kind |-> kind, nbits |-> v.nbits, nblocks |-> v.nblocks,
     padblk |-> v.padblk, ptr |-> ptr, flag_zero |-> v.flag_zero]

\* the address operator new[] returns: one that holds no live array (the
\* lowest; addresses are only ever compared for equality)
CanAlloc(h) == \E a \in Addrs : h[a].st # "live"
NewAddr(h) ==
    CHOOSE a \in Addrs :
        h[a].st # "live" /\ \A b \in Addrs : h[b].st # "live" => a <= b

\* new AllocT[len] at address a; the new blocks hold indeterminate values
newArray(h, a, len) ==
    [h EXCEPT ![a] = [st |-> "live", data |-> [k \in 0 .. (len - 1) |-> alloct_all]]]

\* a delete[] that releases nothing
deleteArray_leak(h, ptr) == h

\* delete[] ptr
deleteArray(h, ptr) ==
    IF ptr = nullptr THEN h
    ELSE [h EXCEPT ![ptr] = [st |-> "freed", data |-> NoArray.data]]

\* delete[] of an address that holds no live array
BadDelete(h, ptr) == ptr # nullptr /\ h[ptr].st # "live"

\* the blocks written through ptr by a method whose result is blocks
storeBlocks(h, ptr, blocks) ==
    IF ptr = nullptr THEN h
    ELSE [h EXCEPT ![ptr].data =
             [k \in DOMAIN @ |-> IF k \in DOMAIN blocks THEN blocks[k] ELSE @[k]]]

\* a copy constructor that takes over the pointer of other
copyCtor_shallow(other, a) ==
    [live |-> TRUE, kind |-> "bitset", nbits |-> other.nbits,
     nblocks |-> other.nblocks, padblk |-> other.padblk, ptr |-> other.ptr,
     flag_zero |-> other.flag_zero]

\* OnewayBitset(const OnewayBitset &other): the member initialisers, a being
\* the address of new AllocT[_nblocks]
copyCtor(other, a) ==
    [live |-> TRUE, kind |-> "bitset", nbits |-> other.nbits,
     nblocks |-> other.nblocks, padblk |-> other.padblk, ptr |-> a,
     flag_zero |-> other.flag_zero]

\* OnewayBitfield(const OnewayBitfield &other): the member initialisers, a
\* being the address of new AllocT[nblocks]
field_copyCtor(other, a) ==
    [live |-> TRUE, kind |-> "bitfield", nbits |-> other.nbits,
     nblocks |-> other.nblocks, padblk |-> other.padblk, ptr |-> a,
     flag_zero |-> other.flag_zero]

\* a move assignment that leaves other._blocks as it is
moveAssign_keepptr(this, other) ==
    [this |-> [this EXCEPT !.nbits = other.nbits, !.nblocks = other.nblocks,
                           !.padblk = other.padblk, !.ptr = other.ptr,
                           !.flag_zero = other.flag_zero],
     other |-> [other EXCEPT !.nbits = 0, !.nblocks = 0, !.padblk = 0,
                             !.flag_zero = TRUE]]

\* OnewayBitset& operator=(OnewayBitset &&other), this != &other: the fields
\* of both instances after the std::exchange calls
moveAssign(this, other) ==
    [this |-> [this EXCEPT !.nbits = other.nbits, !.nblocks = other.nblocks,
                           !.padblk = other.padblk, !.ptr = other.ptr,
                           !.flag_zero = other.flag_zero],
     other |-> [other EXCEPT !.nbits = 0, !.nblocks = 0, !.padblk = 0,
                             !.ptr = nullptr, !.flag_zero = TRUE]]

HeapInit ==
    /\ bs = [o \in Objs |-> ctor(0)]
    /\ lastOp = Op("init", "a", "a", NoIdx, NoIdx, {})
    /\ crashed = FALSE
    /\ inst = [o \in Objs |-> NoInstance]
    /\ heap = [a \in Addrs |-> NoArray]
    /\ variant = Idle /\ fan = Idle /\ track = Idle /\ buf = Idle

\* OnewayBitset o(n)
HConstruct(o, n) ==
    /\ ~crashed /\ ~inst[o].live /\ CanAlloc(heap)
    /\ LET v == ctor(n)
           a == IF v.nbits > 0 THEN NewAddr(heap) ELSE nullptr
       IN  /\ inst' = [inst EXCEPT ![o] = Inst("bitset", v, a)]
           /\ heap' = IF v.nbits > 0
                      THEN storeBlocks(newArray(heap, a, v.nblocks), a, v.blocks)
                      ELSE heap
    /\ lastOp' = Op("construct", o, o, n, NoIdx, {})
    /\ UNCHANGED <<bs, crashed, ext>>

\* OnewayBitfield o(n)
HFieldConstruct(o, n) ==
    /\ ~crashed /\ ~inst[o].live /\ CanAlloc(heap)
    /\ LET v == field_ctor(n)
           a == NewAddr(heap)
       IN  /\ inst' = [inst EXCEPT ![o] = Inst("bitfield", v, a)]
           /\ heap' = storeBlocks(newArray(heap, a, v.nblocks), a, v.blocks)
    /\ lastOp' = Op("construct", o, o, n, NoIdx, {})
    /\ UNCHANGED <<bs, crashed, ext>>

\* OnewayBitset o(p)
HCopyConstruct(o, p) ==
    /\ ~crashed /\ ~inst[o].live /\ inst[p].live /\ CanAlloc(heap)
    /\ inst[p].kind = "bitset"
    /\ LET a == NewAddr(heap)
           new == copyCtor(inst[p], a)
       IN  /\ inst' = [inst EXCEPT ![o] = new]
           \* std::copy(other._blocks, other._blocks+_nblocks, _blocks)
           /\ heap' = storeBlocks(newArray(heap, a, inst[p].nblocks), new.ptr,
                                  View(p).blocks)
    /\ lastOp' = Op("copyctor", o, p, NoIdx, NoIdx, {})
    /\ UNCHANGED <<bs, crashed, ext>>

\* OnewayBitfield o(p)
HFieldCopyConstruct(o, p) ==
    /\ ~crashed /\ ~inst[o].live /\ inst[p].live /\ CanAlloc(heap)
    /\ inst[p].kind = "bitfield"
    /\ LET a == NewAddr(heap)
           new == field_copyCtor(inst[p], a)
       IN  /\ inst' = [inst EXCEPT ![o] = new]
           \* std::copy(other._blocks, other._blocks+nblocks, _blocks)
           /\ heap' = storeBlocks(newArray(heap, a, inst[p].nblocks), new.ptr,
                                  View(p).blocks)
    /\ lastOp' = Op("copyctor", o, p, NoIdx, NoIdx, {})
    /\ UNCHANGED <<bs, crashed, ext>>

\* OnewayBitset o(std::move(p)): the class declares a copy constructor, a
\* destructor and both assignments but no move constructor, so none is
\* implicitly declared and the initialisation calls the copy constructor
HMoveConstruct(o, p) ==
    /\ ~crashed /\ ~inst[o].live /\ inst[p].live /\ CanAlloc(heap)
    /\ inst[p].kind = "bitset"
    /\ LET a == NewAddr(heap)
           new == copyCtor(inst[p], a)
       IN  /\ inst' = [inst EXCEPT ![o] = new]
           /\ heap' = storeBlocks(newArray(heap, a, inst[p].nblocks), new.ptr,
                                  View(p).blocks)
    /\ lastOp' = Op("movector", o, p, NoIdx, NoIdx, {})
    /\ UNCHANGED <<bs, crashed, ext>>

\* ~OnewayBitset() or ~OnewayBitfield() of o
HDestroy(o) ==
    /\ ~crashed /\ inst[o].live
    /\ inst' = [inst EXCEPT ![o] = NoInstance]
    /\ heap' = deleteArray(heap, inst[o].ptr)
    /\ crashed' = BadDelete(heap, inst[o].ptr)
    /\ lastOp' = Op("destroy", o, o, NoIdx, NoIdx, {})
    /\ UNCHANGED <<bs, ext>>

\* o = p (copy assignment of OnewayBitset; OnewayBitfield has const members
\* and no assignment)
HCopyAssign(o, p) ==
    /\ ~crashed /\ inst[o].live /\ inst[p].live
    /\ inst[o].kind = "bitset" /\ inst[p].kind = "bitset"
    /\ IF o = p THEN UNCHANGED <<inst, heap, crashed, ext>>
       ELSE LET realloc == /\ inst[o].nbits # inst[p].nbits
                           /\ inst[o].nblocks # inst[p].nblocks
                h1 == IF realloc THEN deleteArray(heap, inst[o].ptr) ELSE heap
                a == IF realloc THEN NewAddr(h1) ELSE inst[o].ptr
                h2 == IF realloc THEN newArray(h1, a, inst[p].nblocks) ELSE h1
                v == copyAssign(View(o), View(p))
            IN  /\ inst' = [inst EXCEPT ![o] = Inst("bitset", v, a)]
                /\ heap' = storeBlocks(h2, a, v.blocks)
                /\ crashed' = (realloc /\ BadDelete(heap, inst[o].ptr))
    /\ lastOp' = Op("copy", o, p, NoIdx, NoIdx, {})
    /\ UNCHANGED <<bs, ext>>

\* o = std::move(p) (move assignment of OnewayBitset)
HMoveAssign(o, p) ==
    /\ ~crashed /\ inst[o].live /\ inst[p].live
    /\ inst[o].kind = "bitset" /\ inst[p].kind = "bitset"
    /\ IF o = p THEN UNCHANGED <<inst, heap, crashed, ext>>
       ELSE LET r == moveAssign(inst[o], inst[p])
            IN  /\ inst' = [inst EXCEPT ![o] = r.this, ![p] = r.other]
                /\ heap' = deleteArray(heap, inst[o].ptr)
                /\ crashed' = BadDelete(heap, inst[o].ptr)
    /\ lastOp' = Op("move", o, p, NoIdx, NoIdx, {})
    /\ UNCHANGED <<bs, ext>>

\* a method of o that writes its blocks and its flag: v is the instance after it
HWrite(o, v) ==
    /\ inst' = [inst EXCEPT ![o].flag_zero = v.flag_zero]
    /\ heap' = storeBlocks(heap, inst[o].ptr, v.blocks)

\* o.reset()
HReset(o) ==
    /\ ~crashed /\ inst[o].live
    /\ HWrite(o, IF inst[o].kind = "bitfield" THEN field_reset(View(o))
                 ELSE reset(View(o)))
    /\ lastOp' = Op("reset", o, o, NoIdx, NoIdx, {})
    /\ UNCHANGED <<bs, crashed, ext>>

\* o.set(index)
HSet(o, index) ==
    /\ ~crashed /\ inst[o].live
    /\ 0 <= index /\ index < inst[o].nbits
    /\ HWrite(o, IF inst[o].kind = "bitfield" THEN field_set(View(o), index)
                 ELSE set(View(o), index))
    /\ lastOp' = Op("set", o, o, index, NoIdx, {})
    /\ UNCHANGED <<bs, crashed, ext>>

\* o.setAll() on an instance that has blocks
HSetAll(o) ==
    /\ ~crashed /\ inst[o].live
    /\ inst[o].nblocks > 0
    /\ HWrite(o, IF inst[o].kind = "bitfield" THEN field_setAll(View(o))
                 ELSE setAll(View(o)))
    /\ lastOp' = Op("setAll", o, o, NoIdx, NoIdx, {})
    /\ UNCHANGED <<bs, crashed, ext>>

\* o.setAll() of an OnewayBitset with _nblocks = 0 (see SetAllNoBlocks): the
\* call either ends the process or returns with the flag cleared
HSetAllNoBlocks(o) ==
    /\ ~crashed /\ inst[o].live
    /\ inst[o].nblocks = 0
    /\ \/ /\ crashed' = TRUE
          /\ lastOp' = Op("crash", o, o, NoIdx, NoIdx, {})
          /\ UNCHANGED <<bs, inst, heap, ext>>
       \/ /\ inst' = [inst EXCEPT ![o].flag_zero = FALSE]
          /\ lastOp' = Op("setAll", o, o, NoIdx, NoIdx, {})
          /\ UNCHANGED <<bs, crashed, heap, ext>>

\* o.merge(p) of two instances of one class (two OnewayBitfields of one
\* size: their merge has no size check); the two instances read the same
\* array when their _blocks are the same address
HMerge(o, p) ==
    /\ ~crashed /\ inst[o].live /\ inst[p].live
    /\ inst[o].kind = inst[p].kind
    /\ inst[o].kind = "bitfield" => inst[o].nbits = inst[p].nbits
    /\ LET aliased == inst[o].ptr = inst[p].ptr /\ inst[o].ptr # nullptr
       IN  HWrite(o, IF inst[o].kind = "bitfield"
                     THEN field_merge(View(o), View(p), aliased)
                     ELSE merge(View(o), View(p), aliased))
    /\ lastOp' = Op("merge", o, p, NoIdx, NoIdx, {})
    /\ UNCHANGED <<bs, crashed, ext>>

\* o += p; the call returns a reference to o
HPlusAssign(o, p) ==
    /\ ~crashed /\ inst[o].live /\ inst[p].live
    /\ inst[o].kind = "bitset" /\ inst[p].kind = "bitset"
    /\ LET aliased == inst[o].ptr = inst[p].ptr /\ inst[o].ptr # nullptr
       IN  HWrite(o, plusAssign(View(o), View(p), aliased))
    /\ lastOp' = OpRet("plusassign", o, p, o)
    /\ UNCHANGED <<bs, crashed, ext>>

\* the expression o + p, a call of operator+(OnewayBitset lhs, const
\* OnewayBitset &rhs): lhs is copy-constructed from o, lhs += rhs runs, the
\* result is initialised from lhs (by the copy constructor, the class having
\* no move constructor), lhs is destroyed, and the result, a temporary, is
\* destroyed after the caller has read it (lastOp.result is what it reads)
HPlus(o, p) ==
    /\ ~crashed /\ inst[o].live /\ inst[p].live
    /\ inst[o].kind = "bitset" /\ inst[p].kind = "bitset"
    /\ Cardinality({a \in Addrs : heap[a].st # "live"}) >= 2
    /\ \E lhs \in {copyCtor(inst[o], NewAddr(heap))} :
       \E h1 \in {storeBlocks(newArray(heap, NewAddr(heap), lhs.nblocks),
                              lhs.ptr, View(o).blocks)} :
       \E v \in {plusAssign(ViewOf(lhs, h1), ViewOf(inst[p], h1),
                            lhs.ptr = inst[p].ptr /\ lhs.ptr # nullptr)} :
       \E h2 \in {storeBlocks(h1, lhs.ptr, v.blocks)} :
       \E result \in {copyCtor([lhs EXCEPT !.flag_zero = v.flag_zero],
                               NewAddr(h2))} :
       \E h3 \in {storeBlocks(newArray(h2, NewAddr(h2), result.nblocks),
                              result.ptr,
                              ViewOf([lhs EXCEPT !.flag_zero = v.flag_zero],
                                     h2).blocks)} :
       \E h4 \in {deleteArray(h3, lhs.ptr)} :
           /\ heap' = deleteArray(h4, result.ptr)
           /\ crashed' = (BadDelete(h3, lhs.ptr) \/ BadDelete(h4, result.ptr))
           /\ lastOp' = OpRet("plus", o, p, ViewOf(result, h4))
    /\ UNCHANGED <<bs, inst, ext>>

HeapNext ==
    \/ \E o \in Objs, n \in NBitsInputs : HConstruct(o, n)
    \/ \E o \in Objs, n \in 1 .. MaxNBits : HFieldConstruct(o, n)
    \/ \E o \in Objs, p \in Objs : HCopyConstruct(o, p)
    \/ \E o \in Objs, p \in Objs : HFieldCopyConstruct(o, p)
    \/ \E o \in Objs, p \in Objs : HMoveConstruct(o, p)
    \/ \E o \in Objs : HDestroy(o)
    \/ \E o \in Objs, p \in Objs : HCopyAssign(o, p)
    \/ \E o \in Objs, p \in Objs : HMoveAssign(o, p)
    \/ \E o \in Objs : HReset(o)
    \/ \E o \in Objs, index \in 0 .. (MaxNBits - 1) : HSet(o, index)
    \/ \E o \in Objs : HSetAll(o)
    \/ \E o \in Objs : HSetAllNoBlocks(o)
    \/ \E o \in Objs, p \in Objs : HMerge(o, p)

\* construction, copy, move, destruction and the mutating methods, with the
\* block arrays held through pointers
SpecHeap == HeapInit /\ [][HeapNext]_vars

PlusNext ==
    \/ \E o \in Objs, n \in 0 .. MaxNBits : HConstruct(o, n)
    \/ \E o \in Objs, index \in 0 .. (MaxNBits - 1) : HSet(o, index)
    \/ \E o \in Objs, p \in Objs : HPlusAssign(o, p)
    \/ \E o \in Objs, p \in Objs : HPlus(o, p)

\* OnewayBitsets constructed once, filled by set and combined by
\* operator+ and operator+=
SpecPlus == HeapInit /\ [][PlusNext]_vars

\* ---- an OnewayBitfield next to an OnewayBitset ---------------------------
\* the value model and the heap model at rest while another state machine runs
BitsetsIdle ==
    /\ bs = [o \in Objs |-> ctor(0)]
    /\ lastOp = Op("init", "a", "a", NoIdx, NoIdx, {})
    /\ crashed = FALSE
    /\ inst = [o \in Objs |-> NoInstance]
    /\ heap = [a \in Addrs |-> NoArray]
bitsetVars == <<bs, lastOp, crashed, inst, heap>>

\* variant.pair[o]: an OnewayBitset (set) and an OnewayBitfield (field) of one
\* bit count n >= 1, both driven by the same calls; variant.op: the last call
VariantPair(n) == [set |-> ctor(n), field |-> field_ctor(n)]

VariantInit ==
    /\ BitsetsIdle
    /\ variant \in {[pair |-> pr, op |-> "init"] :
                       pr \in [Objs -> {VariantPair(n) : n \in 1 .. MaxNBits}]}
    /\ fan = Idle /\ track = Idle /\ buf = Idle

\* both instances of slot o become s and f by the call op
VStep(o, s, f, op) ==
    /\ variant' = [variant EXCEPT !.pair[o] = [set |-> s, field |-> f],
                                  !.op = op]
    /\ UNCHANGED <<bitsetVars, fan, track, buf>>

\* o.set(index) on both
VSet(o, index) ==
    /\ 0 <= index /\ index < variant.pair[o].set.nbits
    /\ VStep(o, set(variant.pair[o].set, index),
             field_set(variant.pair[o].field, index), "set")

\* o.setAll() on both
VSetAll(o) ==
    VStep(o, setAll(variant.pair[o].set), field_setAll(variant.pair[o].field),
          "setAll")

\* o.reset() on both
VReset(o) ==
    VStep(o, reset(variant.pair[o].set), field_reset(variant.pair[o].field),
          "reset")

\* o.merge(p) on both, p of the bit count of o (p may be o itself)
VMerge(o, p) ==
    /\ variant.pair[o].set.nbits = variant.pair[p].set.nbits
    /\ VStep(o, merge(variant.pair[o].set, variant.pair[p].set, o = p),
             field_merge(variant.pair[o].field, variant.pair[p].field, o = p),
             "merge")

VariantNext ==
    \/ \E o \in Objs, index \in 0 .. (MaxNBits - 1) : VSet(o, index)
    \/ \E o \in Objs : VSetAll(o)
    \/ \E o \in Objs : VReset(o)
    \/ \E o \in Objs, p \in Objs : VMerge(o, p)

\* an OnewayBitset and an OnewayBitfield of one size under the same calls
SpecVariant == VariantInit /\ [][VariantNext]_vars

\* ---- fan-in: private sets merged into an accumulator ---------------------
\* Each worker owns an OnewayBitset of n bits and calls set on it until it
\* finishes; once every worker has finished, the coordinator merges the
\* worker sets, in any order, into an accumulator constructed with n bits.
\* fan.calls[w] records the indices worker w passed to set.
Workers == {"w1", "w2"}

FanInit ==
    /\ BitsetsIdle
    /\ fan \in {[n |-> n,
                 set |-> [w \in Workers |-> ctor(n)],
                 calls |-> [w \in Workers |-> {}],
                 finished |-> {},
                 acc |-> ctor(n),
                 merged |-> {}] : n \in 0 .. MaxNBits}
    /\ variant = Idle /\ track = Idle /\ buf = Idle

\* worker w calls set(index) on its own set
FanSet(w, index) ==
    /\ w \notin fan.finished
    /\ 0 <= index /\ index < fan.n
    /\ fan' = [fan EXCEPT !.set[w] = set(@, index),
                          !.calls[w] = @ \cup {index}]
    /\ UNCHANGED <<bitsetVars, variant, track, buf>>

\* worker w makes no further call
FanFinish(w) ==
    /\ w \notin fan.finished
    /\ fan' = [fan EXCEPT !.finished = @ \cup {w}]
    /\ UNCHANGED <<bitsetVars, variant, track, buf>>

\* the coordinator calls acc.merge(set of w), every worker having finished
FanMerge(w) ==
    /\ fan.finished = Workers
    /\ w \notin fan.merged
    /\ fan' = [fan EXCEPT !.acc = merge(@, fan.set[w], FALSE),
                          !.merged = @ \cup {w}]
    /\ UNCHANGED <<bitsetVars, variant, track, buf>>

FanNext ==
    \/ \E w \in Workers, index \in 0 .. (MaxNBits - 1) : FanSet(w, index)
    \/ \E w \in Workers : FanFinish(w)
    \/ \E w \in Workers : FanMerge(w)

SpecFan == FanInit /\ [][FanNext]_vars

\* ---- change tracking: sampleBitsetTrack next to sampleBoolvecTrack -------
\* track.flags is the OnewayBitset flags_xchanged of sampleBitsetTrack,
\* track.vec the std::vector<bool> flags_xchanged of sampleBoolvecTrack; both
\* runs draw the same random numbers (srand(1337) precedes each), so the same
\* indices change in the same step: track.changed.  track.step counts the
\* finished loop iterations, track.pc is the call the loop body makes next,
\* track.recBitset and track.recBoolvec are the indices i whose lastObs[i]
\* the last calcObs call of either run recomputed.
\* for (int i=0; i<ndim; ++i) { if (...) { ...; flags_xchanged.set(i); } }
RECURSIVE newPositionBitsetTrack(_, _, _, _)
newPositionBitsetTrack(ndim, flags, changed, i) ==
    IF i >= ndim THEN flags
    ELSE newPositionBitsetTrack(ndim,
                                IF i \in changed THEN set(flags, i) ELSE flags,
                                changed, i + 1)

\* for (int i=0; i<ndim; ++i) { if (...) { ...; flags_xchanged[i] = true; } }
newPositionBoolvecTrack(ndim, vec, changed) ==
    [i \in 0 .. (ndim - 1) |-> IF i \in changed THEN TRUE ELSE vec[i]]

\* calcObsBitsetTrack: the indices whose lastObs entry it assigns
calcObsBitsetTrack(ndim, flags) ==
    IF any(flags) THEN {i \in 0 .. (ndim - 1) : get(flags, i)} ELSE {}

\* calcObsBoolvecTrack: the indices whose lastObs entry it assigns
calcObsBoolvecTrack(ndim, vec) == {i \in 0 .. (ndim - 1) : vec[i]}

\* both samplers up to their loops: flags_xchanged(ndim), setAll() and
\* std::fill(..., true)
TrackInit ==
    /\ BitsetsIdle
    /\ track \in {[ndim |-> ndim, step |-> 0, pc |-> "newPosition",
                   changed |-> {},
                   flags |-> setAll(ctor(ndim)),
                   vec |-> [i \in 0 .. (ndim - 1) |-> TRUE],
                   recBitset |-> {}, recBoolvec |-> {}] : ndim \in 1 .. MaxNBits}
    /\ variant = Idle /\ fan = Idle /\ buf = Idle

\* newPosition...Track of both runs, the draws changing the indices in changed
TrackNewPosition(changed) ==
    /\ track.pc = "newPosition" /\ track.step < MaxSteps
    /\ changed \subseteq 0 .. (track.ndim - 1)
    /\ track' = [track EXCEPT
                    !.changed = changed,
                    !.flags = newPositionBitsetTrack(track.ndim, @, changed, 0),
                    !.vec = newPositionBoolvecTrack(track.ndim, @, changed),
                    !.pc = "calcObs"]
    /\ UNCHANGED <<bitsetVars, variant, fan, buf>>

\* calcObs...Track of both runs
TrackCalcObs ==
    /\ track.pc = "calcObs"
    /\ track' = [track EXCEPT
                    !.recBitset = calcObsBitsetTrack(track.ndim, track.flags),
                    !.recBoolvec = calcObsBoolvecTrack(track.ndim, track.vec),
                    !.pc = "reset"]
    /\ UNCHANGED <<bitsetVars, variant, fan, buf>>

\* flags_xchanged.reset() and std::fill(..., false), the end of an iteration
TrackReset ==
    /\ track.pc = "reset"
    /\ track' = [track EXCEPT
                    !.flags = reset(@),
                    !.vec = [i \in 0 .. (track.ndim - 1) |-> FALSE],
                    !.step = @ + 1,
                    !.pc = "newPosition"]
    /\ UNCHANGED <<bitsetVars, variant, fan, buf>>

TrackNext ==
    \/ \E changed \in SUBSET (0 .. (MaxNBits - 1)) : TrackNewPosition(changed)
    \/ TrackCalcObs
    \/ TrackReset

SpecTrack == TrackInit /\ [][TrackNext]_vars

\* ---- PushBackBuffer (recent_value_storage) -------------------------------
\* buf: the members _ncap, _vec (a sequence; element j of the vector is
\* vec[j + 1]) and _inext of a PushBackBuffer, and the values pushed so far
\* (hist).
Vals == {0, 1}

\* size_t size() const
size(this) == Len(this.vec)

\* bool full() const
full(this) == Len(this.vec) = this.ncap

\* bool wrapped() const
wrapped(this) == this.inext < Len(this.vec)

\* _inc_inext without the wrap
inc_inext_nowrap(this) == [this EXCEPT !.inext = @ + 1]

\* void _inc_inext()
inc_inext(this) ==
    [this EXCEPT !.inext = IF @ + 1 = this.ncap THEN 0 ELSE @ + 1]

\* _get_index without the shift by _inext
get_index_noshift(this, index) == index

\* size_t _get_index(size_t index) const, called with index < _ncap
get_index(this, index) ==
    IF wrapped(this)
    THEN LET shiftidx == this.inext + index
         IN  IF shiftidx < this.ncap THEN shiftidx ELSE shiftidx - this.ncap
    ELSE index

\* const ValueT &operator[](size_t i) const, called with i < size()
at(this, i) == this.vec[get_index(this, i) + 1]

\* void push_back(const ValueT &val)
push_back(this, val) ==
    inc_inext(IF full(this)
              THEN [this EXCEPT !.vec[this.inext + 1] = val]
              ELSE [this EXCEPT !.vec = Append(@, val)])

\* PushBackBuffer(size) with size >= 1
BufInit ==
    /\ BitsetsIdle
    /\ buf \in {[ncap |-> c, vec |-> <<>>, inext |-> 0, hist |-> <<>>] :
                   c \in 1 .. MaxCap}
    /\ variant = Idle /\ fan = Idle /\ track = Idle

\* buffer.push_back(val)
PushBack(val) ==
    /\ Len(buf.hist) < MaxPush
    /\ buf' = [push_back(buf, val) EXCEPT !.hist = Append(@, val)]
    /\ UNCHANGED <<bitsetVars, variant, fan, track>>

BufNext == \E val \in Vals : PushBack(val)

SpecBuf == BufInit /\ [][BufNext]_vars

\* ---- properties ----------------------------------------------------------
\* the logical bit indices of an instance
Bits(this) == 0 .. (this.nbits - 1)
\* the padding positions of the final block
PadBits(this) == this.nbits .. (this.nblocks * blocksize - 1)
\* the instance the last call was made on, and its argument instance
Target == bs[lastOp.obj]
Source == bs[lastOp.other]

\* C1: in every state reachable by construction, set(i), setAll, reset, merge,
\* copy and move assignment, any() is true (and none() false) only if some
\* logical bit is 1.
C1_AnyExact ==
    \A o \in Objs :
        /\ any(bs[o]) => \E i \in Bits(bs[o]) : get(bs[o], i)
        /\ ~none(bs[o]) => \E i \in Bits(bs[o]) : get(bs[o], i)

\* C2: whenever the flag says empty every block is 0, no logical bit reads 1
\* and a full scan counts 0 bits; and the flag is not set right after a set or
\* setAll call.
C2_FlagSound ==
    /\ \A o \in Objs :
          none(bs[o]) =>
              /\ \A k \in 0 .. (bs[o].nblocks - 1) : bs[o].blocks[k] = 0
              /\ \A i \in Bits(bs[o]) : ~get(bs[o], i)
              /\ countFrom(bs[o], 0) = 0
    /\ lastOp.op \in {"set", "set_tuple", "setAll"} => ~none(Target)

\* C2 witness: a set is flagged empty after a merge of two empty sets of two blocks
C2_Witness ==
    /\ lastOp.op = "merge" /\ lastOp.obj # lastOp.other
    /\ none(Target) /\ Target.nblocks >= 2

\* C3: after any mutating operation all bits of the final block at positions
\* >= n are 0.
C3_PaddingZero ==
    \A o \in Objs : \A k \in PadBits(bs[o]) : ~get(bs[o], k)

\* C4: for n >= 1, after setAll(): all() is true, count() is n and every
\* logical bit reads 1.
C4_SetAllFills ==
    (lastOp.op = "setAll" /\ Target.nbits >= 1) =>
        /\ all(Target) = {TRUE}
        /\ count(Target) = Target.nbits
        /\ \A i \in Bits(Target) : get(Target, i)

\* C5: set(i) makes bit i 1 and any() true, keeps every other bit, and raises
\* count() by 1 exactly when bit i was 0.
C5_SetOne ==
    [][\A o \in Objs :
          (lastOp'.op = "set" /\ lastOp'.obj = o) =>
              LET i == lastOp'.idx IN
              /\ get(bs'[o], i) /\ any(bs'[o]) /\ ~none(bs'[o])
              /\ \A j \in Bits(bs[o]) \ {i} : get(bs'[o], j) = get(bs[o], j)
              /\ count(bs'[o]) = count(bs[o]) + (IF get(bs[o], i) THEN 0 ELSE 1)
              /\ bs'[o].nbits = bs[o].nbits]_vars

\* C5 witness: set(i) on a bit of the second block, with another bit already 1
C5_Witness ==
    /\ lastOp.op = "set" /\ lastOp.idx >= blocksize
    /\ get(Target, lastOp.idx) /\ count(Target) >= 2

\* the state of a freshly constructed set
FreshState(this) ==
    /\ \A i \in Bits(this) : ~get(this, i)
    /\ none(this) /\ ~any(this) /\ all(this) = {FALSE} /\ count(this) = 0

\* C6: a freshly constructed set of any bit count n >= 0 has every bit 0,
\* none() true, any() and all() false, count() 0; two fresh sets of the same
\* bit count are equal.
C6_Fresh ==
    /\ lastOp.op = "init" =>
          /\ \A o \in Objs : FreshState(bs[o])
          /\ \A o \in Objs, p \in Objs :
                bs[o].nbits = bs[p].nbits => equals(bs[o], bs[p])
    /\ lastOp.op = "construct" =>
          /\ FreshState(Target)
          /\ Target.nbits = (IF lastOp.idx > 0 THEN lastOp.idx ELSE 0)
          /\ equals(Target, ctor(lastOp.idx))

\* C6 witness: a set of two blocks was just constructed while the other
\* instance holds bits
C6_Witness ==
    /\ lastOp.op = "construct" /\ Target.nblocks >= 2
    /\ \E o \in Objs : any(bs[o])

\* C7: reset() leaves every bit 0, count() 0, none() true, any() and all()
\* false, and keeps the bit count, block count and pad mask.
C7_Reset ==
    [][\A o \in Objs :
          (lastOp'.op = "reset" /\ lastOp'.obj = o) =>
              /\ FreshState(bs'[o])
              /\ \A k \in 0 .. (bs'[o].nblocks - 1) : bs'[o].blocks[k] = 0
              /\ bs'[o].nbits = bs[o].nbits
              /\ bs'[o].nblocks = bs[o].nblocks
              /\ bs'[o].padblk = bs[o].padblk]_vars

\* C7 witness: reset() was called on a set of two blocks
C7_Witness ==
    /\ lastOp.op = "reset" /\ Target.nblocks >= 2 /\ none(Target)

\* C8: for n >= 1, set, setAll and same-size merge never take a logical bit
\* from 1 to 0.
C8_OneWay ==
    [][\A o \in Objs :
          (/\ lastOp'.op \in {"set", "set_tuple", "setAll", "merge"}
           /\ lastOp'.obj = o /\ bs[o].nbits >= 1) =>
              \A j \in Bits(bs[o]) : get(bs[o], j) => get(bs'[o], j)]_vars

\* C9: a.merge(b) with equal bit counts makes each bit of a the OR of both
\* bits and a's flag the AND of both flags, and leaves b unchanged, also when
\* b is a.
C9_MergeOr ==
    [][\A o \in Objs, p \in Objs :
          (/\ lastOp'.op = "merge" /\ lastOp'.obj = o /\ lastOp'.other = p
           /\ bs[o].nbits = bs[p].nbits) =>
              /\ \A i \in Bits(bs[o]) :
                    get(bs'[o], i) = (get(bs[o], i) \/ get(bs[p], i))
              /\ none(bs'[o]) = (none(bs[o]) /\ none(bs[p]))
              /\ bs'[o].nbits = bs[o].nbits
              /\ p # o => bs'[p] = bs[p]
              /\ p = o => \A i \in Bits(bs[o]) : get(bs'[o], i) = get(bs[o], i)]_vars

\* C9 witness: a merge of two distinct non-empty sets of equal size that
\* added bits to the target
C9_Witness ==
    /\ lastOp.op = "merge" /\ lastOp.obj # lastOp.other
    /\ Target.nbits = Source.nbits /\ Target.nblocks >= 2
    /\ any(Source) /\ count(Target) > count(Source)

\* C10: with different bit counts a.merge(b) changes nothing of a, touches no
\* block of either set, and a.equals(b) is false; neither call fails.
C10_Mismatch ==
    [][\A o \in Objs, p \in Objs :
          /\ bs[o].nbits # bs[p].nbits => ~equals(bs[o], bs[p])
          /\ (/\ lastOp'.op = "merge" /\ lastOp'.obj = o /\ lastOp'.other = p
              /\ bs[o].nbits # bs[p].nbits) =>
                 /\ bs' = bs
                 /\ lastOp'.acc = {}
                 /\ ~crashed']_vars

\* C10 witness: a merge of a non-empty set into one of another bit count but
\* the same block count
C10_Witness ==
    /\ lastOp.op = "merge" /\ Target.nbits # Source.nbits
    /\ Target.nblocks = Source.nblocks /\ any(Source) /\ none(Target)

\* C11: for sets of equal bit count, a.merge(b) and b.merge(a) give the same
\* bit pattern, a second a.merge(b) changes nothing, and merging an operand
\* whose bits are all 0 leaves a's bits, count() and any() unchanged.
C11_MergeAlgebra ==
    \A o \in Objs, p \in Objs :
        bs[o].nbits = bs[p].nbits =>
            LET ab == merge(bs[o], bs[p], o = p)
                ba == merge(bs[p], bs[o], o = p)
            IN  /\ \A i \in Bits(bs[o]) : get(ab, i) = get(ba, i)
                /\ merge(ab, IF o = p THEN ab ELSE bs[p], o = p) = ab
                /\ (\A i \in Bits(bs[p]) : ~get(bs[p], i)) =>
                      /\ \A i \in Bits(bs[o]) : get(ab, i) = get(bs[o], i)
                      /\ count(ab) = count(bs[o])
                      /\ any(ab) = any(bs[o])

\* C12: count() is the number of logical bits that read 1.
C12_CountExact ==
    \A o \in Objs :
        count(bs[o]) = Cardinality({i \in Bits(bs[o]) : get(bs[o], i)})

\* C13: for n >= 1, all() is true exactly when every logical bit reads 1; for
\* n = 0 it is false.
C13_AllExact ==
    \A o \in Objs :
        /\ bs[o].nbits >= 1 =>
              all(bs[o]) = {\A i \in Bits(bs[o]) : get(bs[o], i)}
        /\ bs[o].nbits = 0 => all(bs[o]) = {FALSE}

\* C14: getAll(out) writes exactly the entries out[0 .. n-1] and leaves
\* out[i] = get(i) in each of them.
C14_GetAll ==
    \A o \in Objs :
        /\ DOMAIN getAll(bs[o]) = Bits(bs[o])
        /\ \A i \in Bits(bs[o]) : getAll(bs[o])[i] = get(bs[o], i)

\* C15: equals is reflexive and symmetric, and a.equals(b) is true exactly
\* when a and b have the same bit count and their getAll outputs agree in
\* every entry.
C15_EqualsGetAll ==
    \A o \in Objs, p \in Objs :
        /\ equals(bs[o], bs[o])
        /\ equals(bs[o], bs[p]) = equals(bs[p], bs[o])
        /\ equals(bs[o], bs[p]) =
              (/\ bs[o].nbits = bs[p].nbits
               /\ \A i \in Bits(bs[o]) : getAll(bs[o])[i] = getAll(bs[p])[i])

\* for (i = 0; i < n; ++i) if (buffer[i]) fresh.set(i)
RECURSIVE setEveryTrue(_, _, _, _)
setEveryTrue(fresh, buffer, i, n) ==
    IF i >= n THEN fresh
    ELSE setEveryTrue(IF buffer[i] THEN set(fresh, i) ELSE fresh, buffer, i + 1, n)

\* the set built from the getAll output of this
RoundTrip(this) == setEveryTrue(ctor(this.nbits), getAll(this), 0, this.nbits)

\* C16: a fresh n-bit set on which set(i) is called for every true entry of
\* the getAll output of s has the bits of s and equals s.
C16_RoundTrip ==
    \A o \in Objs :
        /\ \A i \in Bits(bs[o]) : get(RoundTrip(bs[o]), i) = get(bs[o], i)
        /\ equals(RoundTrip(bs[o]), bs[o])

\* C20: with rest = n mod blocksize, the pad mask the constructor computes has
\* exactly its low rest bits 1 when rest # 0 and is the all-ones block when
\* rest = 0.
C20_PadMask ==
    \A o \in Objs :
        (lastOp.op = "init" \/ (lastOp.op = "construct" /\ lastOp.obj = o)) =>
            LET rest == bs[o].nbits % blocksize
            IN  bs[o].padblk = (IF rest # 0 THEN (2 ^ rest) - 1 ELSE alloct_all)

\* ---- copy and move (SpecHeap) --------------------------------------------
\* get(i), any() and count() of an instance of class kind whose fields and
\* blocks are v
GetOf(kind, v, i) == IF kind = "bitfield" THEN field_get(v, i) ELSE get(v, i)
AnyOf(kind, v) == IF kind = "bitfield" THEN field_any(v) ELSE any(v)
CountOf(kind, v) == IF kind = "bitfield" THEN field_count(v) ELSE count(v)

\* what a caller can observe of instance record i in heap h: its size, every
\* bit, count() and any()
Observed(i, h) ==
    LET v == ViewOf(i, h)
    IN  [nbits |-> v.nbits,
         bits |-> [k \in Bits(v) |-> GetOf(i.kind, v, k)],
         count |-> CountOf(i.kind, v),
         any |-> AnyOf(i.kind, v)]

\* C17: copy independence.  A copy construction (OnewayBitset or
\* OnewayBitfield) or a copy assignment between two distinct instances gives
\* the copy the bits and the emptiness flag of the original and leaves the
\* original as it was; and a set, setAll, reset or merge on one instance
\* changes neither the bits nor count() nor any() of any other live instance,
\* a copy or the original of the first in particular.
C17_CopyIndependent ==
    [][~crashed' =>
        /\ (lastOp'.op \in {"copyctor", "copy"} /\ lastOp'.obj # lastOp'.other) =>
              LET new == inst'[lastOp'.obj]
                  copy == ViewOf(new, heap')
                  orig == View(lastOp'.other)
              IN  /\ copy.nbits = orig.nbits
                  /\ \A i \in Bits(orig) :
                        GetOf(new.kind, copy, i) = GetOf(new.kind, orig, i)
                  /\ copy.flag_zero = orig.flag_zero
                  /\ Observed(inst'[lastOp'.other], heap')
                        = Observed(inst[lastOp'.other], heap)
        /\ (lastOp'.op \in {"set", "setAll", "reset", "merge"}) =>
              \A q \in Objs \ {lastOp'.obj} :
                  inst[q].live =>
                      /\ inst'[q].live
                      /\ Observed(inst'[q], heap') = Observed(inst[q], heap)
    ]_vars

\* a copy (constructed or assigned) of a non-empty instance exists next to
\* its original, in an array of its own
C17_Witness ==
    /\ lastOp.op \in {"copyctor", "copy"}
    /\ lastOp.obj # lastOp.other
    /\ inst[lastOp.obj].live /\ inst[lastOp.other].live
    /\ inst[lastOp.obj].nbits > 1
    /\ any(View(lastOp.other))
    /\ Observed(inst[lastOp.obj], heap) = Observed(inst[lastOp.other], heap)
    /\ inst[lastOp.obj].ptr # inst[lastOp.other].ptr

\* C18: move assignment a = std::move(b) with a and b distinct gives a the
\* bit count, block count, pad mask, bits and emptiness flag b had, and
\* leaves b with bit count 0, block count 0, no block array, any() false and
\* count() 0; with a and b the same object nothing changes.
C18_MoveAssign ==
    [][lastOp'.op = "move" =>
        LET a == ViewOf(inst'[lastOp'.obj], heap')
            b == ViewOf(inst'[lastOp'.other], heap')
            before == View(lastOp'.other)
        IN  IF lastOp'.obj # lastOp'.other
            THEN /\ a.nbits = before.nbits
                 /\ a.nblocks = before.nblocks
                 /\ a.padblk = before.padblk
                 /\ a.blocks = before.blocks
                 /\ \A i \in Bits(before) : get(a, i) = get(before, i)
                 /\ a.flag_zero = before.flag_zero
                 /\ b.nbits = 0
                 /\ b.nblocks = 0
                 /\ inst'[lastOp'.other].ptr = nullptr
                 /\ ~any(b)
                 /\ count(b) = 0
                 /\ ~crashed'
            ELSE /\ inst'[lastOp'.obj] = inst[lastOp'.obj]
                 /\ a = View(lastOp'.obj)
                 /\ ~crashed'
    ]_vars

\* a non-empty set was moved into another instance
C18_Witness ==
    /\ lastOp.op = "move"
    /\ lastOp.obj # lastOp.other
    /\ inst[lastOp.obj].nbits > 1
    /\ count(View(lastOp.obj)) > 0
    /\ inst[lastOp.other].ptr = nullptr

\* C19: move construction OnewayBitset b(std::move(a)) hands a's block array
\* to b and leaves a with bit count 0, block count 0 and any() false.
C19_MoveConstruct ==
    [][lastOp'.op = "movector" =>
        /\ inst[lastOp'.other].nblocks > 0 =>
              inst'[lastOp'.obj].ptr = inst[lastOp'.other].ptr
        /\ inst'[lastOp'.other].nbits = 0
        /\ inst'[lastOp'.other].nblocks = 0
        /\ ~any(ViewOf(inst'[lastOp'.other], heap'))
    ]_vars

\* ---- block count (Spec) --------------------------------------------------
\* C21: the constructor called with n yields the block count ceil(n /
\* blocksize) when n > 0 (the least k with k * blocksize >= n) and 0 when
\* n <= 0, a negative n giving bit count 0; a set constructed with n = 0 has
\* any() false, all() false and count() 0.
C21_BlockCount ==
    lastOp.op = "construct" =>
        LET n == lastOp.idx
        IN  /\ n > 0 => /\ Target.nbits = n
                        /\ Target.nblocks * blocksize >= n
                        /\ (Target.nblocks - 1) * blocksize < n
            /\ n <= 0 => /\ Target.nbits = 0
                         /\ Target.nblocks = 0
            /\ n = 0 => /\ ~any(Target)
                        /\ all(Target) = {FALSE}
                        /\ count(Target) = 0

\* a set whose bits fill more than one block was constructed
C21_Witness ==
    /\ lastOp.op = "construct"
    /\ lastOp.idx > blocksize
    /\ Target.nblocks >= 2

\* ---- OnewayBitfield against OnewayBitset (SpecVariant) -------------------
\* C22: an OnewayBitfield and an OnewayBitset of one bit count n >= 1 driven
\* by the same sequence of set(i), setAll(), reset() and merge with an operand
\* of the same size return the same get(i) for every i < n, the same getAll
\* buffer and the same any(), none(), all() and count() after every step.
C22_VariantEquivalent ==
    \A o \in Objs :
        LET s == variant.pair[o].set
            f == variant.pair[o].field
        IN  /\ s.nbits = f.nbits
            /\ \A i \in Bits(s) : get(s, i) = field_get(f, i)
            /\ getAll(s) = field_getAll(f)
            /\ any(s) = field_any(f)
            /\ none(s) = field_none(f)
            /\ all(s) = {field_all(f)}
            /\ count(s) = field_count(f)

\* a merge left a pair of more than one block with some but not all bits set,
\* next to an operand that setAll() has filled
C22_Witness ==
    /\ variant.op = "merge"
    /\ \E o \in Objs, p \in Objs :
          /\ o # p
          /\ variant.pair[o].field.nblocks >= 2
          /\ field_count(variant.pair[o].field) >= 1
          /\ ~field_all(variant.pair[o].field)
          /\ field_all(variant.pair[p].field)

\* ---- fan-in (SpecFan) ----------------------------------------------------
\* C23: when every worker set has been merged into the accumulator, get(i)
\* of the accumulator is true exactly for the indices some worker passed to
\* set, count() is the number of those indices, and any() is true iff there
\* is one; whatever the interleaving of the set calls and the merge order.
C23_FanIn ==
    fan.merged = Workers =>
        LET union == UNION {fan.calls[w] : w \in Workers}
        IN  /\ \A i \in Bits(fan.acc) : get(fan.acc, i) <=> (i \in union)
            /\ fan.acc.nbits = fan.n
            /\ count(fan.acc) = Cardinality(union)
            /\ any(fan.acc) <=> (union # {})

\* all merges done, the workers having set different, overlapping index sets
\* that reach into the last of several blocks
C23_Witness ==
    /\ fan.merged = Workers
    /\ fan.acc.nblocks >= 2
    /\ \E v \in Workers, w \in Workers :
          /\ fan.calls[v] \ fan.calls[w] # {}
          /\ fan.calls[w] \ fan.calls[v] # {}
          /\ fan.calls[v] \cap fan.calls[w] # {}
    /\ get(fan.acc, fan.n - 1)

\* C24: copy assignment a = b between OnewayBitsets of any bit counts gives a
\* the bit count, block count and pad mask of b, the same get(i) for every i
\* and the same any(), makes a.equals(b) true and leaves b as it was; a = a
\* leaves a as it was.
C24_AssignResize ==
    [][lastOp'.op = "copy" =>
        LET a == ViewOf(inst'[lastOp'.obj], heap')
            b == ViewOf(inst'[lastOp'.other], heap')
            before == View(lastOp'.other)
        IN  /\ ~crashed'
            /\ IF lastOp'.obj # lastOp'.other
               THEN /\ a.nbits = before.nbits
                    /\ a.nblocks = before.nblocks
                    /\ a.padblk = before.padblk
                    /\ \A i \in Bits(before) : get(a, i) = get(before, i)
                    /\ any(a) = any(before)
                    /\ equals(a, b)
                    /\ b = before
                    /\ inst'[lastOp'.other] = inst[lastOp'.other]
               ELSE /\ a = View(lastOp'.obj)
                    /\ inst' = inst
    ]_vars

\* a set of two blocks holding two bits or more was assigned to another
\* instance
C24_Witness ==
    /\ lastOp.op = "copy"
    /\ lastOp.obj # lastOp.other
    /\ inst[lastOp.obj].nblocks >= 2
    /\ count(View(lastOp.obj)) >= 2
    /\ equals(View(lastOp.obj), View(lastOp.other))

\* C25: for OnewayBitsets a and b of one bit count, a + b is a set of that
\* bit count whose get(i) is get_a(i) or get_b(i) for every i and whose any()
\* is a.any() or b.any(), and a and b are left as they were; a += b changes a
\* exactly as a.merge(b) does, changes nothing else and returns a.
C25_Plus ==
    [][/\ lastOp'.op = "plus" =>
            LET a == View(lastOp'.obj)
                b == View(lastOp'.other)
            IN  /\ ~crashed'
                /\ \A q \in Objs :
                      /\ inst'[q] = inst[q]
                      /\ ViewOf(inst'[q], heap') = View(q)
                /\ a.nbits = b.nbits =>
                      LET sum == lastOp'.result
                      IN  /\ sum.nbits = a.nbits
                          /\ \A i \in Bits(a) :
                                get(sum, i) <=> (get(a, i) \/ get(b, i))
                          /\ any(sum) <=> (any(a) \/ any(b))
       /\ lastOp'.op = "plusassign" =>
            LET o == lastOp'.obj
                p == lastOp'.other
            IN  /\ ~crashed'
                /\ ViewOf(inst'[o], heap') = merge(View(o), View(p), o = p)
                /\ \A q \in Objs \ {o} :
                      /\ inst'[q] = inst[q]
                      /\ ViewOf(inst'[q], heap') = View(q)
                /\ lastOp'.result = o
    ]_vars

\* a + b was evaluated for two different non-empty sets of two blocks, the
\* sum holding more bits than either
C25_Witness ==
    /\ lastOp.op = "plus"
    /\ lastOp.obj # lastOp.other
    /\ inst[lastOp.obj].nbits = inst[lastOp.other].nbits
    /\ inst[lastOp.obj].nblocks >= 2
    /\ count(lastOp.result) > count(View(lastOp.obj))
    /\ count(lastOp.result) > count(View(lastOp.other))

\* C26: block-array ownership.  No two live instances hold the same block
\* array; no array is released twice (delete[] never meets an address without
\* a live array, so nothing but a setAll() outside the array ends the
\* process); every allocated array belongs to a live instance, whose
\* destructor releases it; and the array a live instance reads and writes is
\* never a released one.
C26_Ownership ==
    /\ \A o \in Objs, p \in Objs :
          (o # p /\ inst[o].live /\ inst[p].live /\ inst[o].ptr = inst[p].ptr)
              => inst[o].ptr = nullptr
    /\ crashed => lastOp.op = "crash"
    /\ \A a \in Addrs :
          heap[a].st = "live" => \E o \in Objs : inst[o].live /\ inst[o].ptr = a
    /\ \A o \in Objs :
          (inst[o].live /\ inst[o].ptr # nullptr) =>
              /\ heap[inst[o].ptr].st = "live"
              /\ DOMAIN heap[inst[o].ptr].data = 0 .. (inst[o].nblocks - 1)

\* an instance was destroyed and its array released while the other instance
\* lives on with bits in an array of its own
C26_Witness ==
    /\ lastOp.op = "destroy"
    /\ \E o \in Objs : inst[o].live /\ inst[o].ptr # nullptr
                       /\ any(View(o))
    /\ \E a \in Addrs : heap[a].st = "freed"

\* C27: every operation called within its input constraints reads and writes
\* only block indices in 0 .. _nblocks-1 of the instances it touches, also on
\* an instance constructed with bit count 0 or emptied by a move assignment;
\* setAll() in particular never touches index _nblocks-1 when _nblocks is 0,
\* and no call ends the process.
C27_InBounds ==
    /\ ~crashed
    /\ \A x \in lastOp.acc : 0 <= x.idx /\ x.idx < bs[x.obj].nblocks

\* ---- change tracking (SpecTrack) -----------------------------------------
\* C28: in every step sampleBitsetTrack recomputes lastObs[i] for the same
\* indices i as sampleBoolvecTrack: for every index in the first step, for
\* the indices changed in that step in every later one; and it takes the
\* any() == false shortcut only when no index changed.
C28_SameRecompute ==
    track.pc = "reset" =>
        /\ track.recBitset = track.recBoolvec
        /\ track.step = 0 => track.recBitset = 0 .. (track.ndim - 1)
        /\ track.step > 0 => track.recBitset = track.changed
        /\ ~any(track.flags) => track.changed = {}

\* ---- PushBackBuffer (SpecBuf) --------------------------------------------
\* C29: after k push_back calls on a buffer of capacity c >= 1, size() is
\* min(k, c) and buffer[i] is the (k - size() + i + 1)-th value pushed, for
\* every i < size(): the last min(k, c) values, oldest first.
C29_SlidingWindow ==
    LET k == Len(buf.hist)
    IN  /\ size(buf) = (IF k < buf.ncap THEN k ELSE buf.ncap)
        /\ \A i \in 0 .. (size(buf) - 1) :
              at(buf, i) = buf.hist[k - size(buf) + i + 1]

\* the buffer has been full for a while, the next write is in its middle and
\* it holds different values
C29_Witness ==
    /\ buf.ncap >= 2
    /\ Len(buf.hist) > buf.ncap
    /\ buf.inext > 0
    /\ at(buf, 0) # at(buf, size(buf) - 1)

\* C30: the next-write index stays in 0 .. c-1, size() never exceeds c, and
\* wrapped() is true iff full() is, both from the c-th push on.
C30_IndexInvariant ==
    /\ 0 <= buf.inext /\ buf.inext < buf.ncap
    /\ size(buf) <= buf.ncap
    /\ wrapped(buf) <=> full(buf)
    /\ full(buf) <=> (Len(buf.hist) >= buf.ncap)

\* the write index has gone round a buffer of two or more elements twice
C30_Witness ==
    /\ buf.ncap >= 2
    /\ Len(buf.hist) = 2 * buf.ncap
    /\ buf.inext = 0
    /\ wrapped(buf) /\ full(buf)

====
